---- MODULE Spec2Model ----
(***************************************************************************)
(* Model of curency.py: get_privatbank_exchange_rates() fetches the        *)
(* PrivatBank card rates and the NBU official rates, merges them into one  *)
(* record per tracked currency, and show_exchange_rates() prints them.     *)
(*                                                                         *)
(* JSON values are records [t |-> <Python type>, v |-> <text>]; a dict     *)
(* element of a response list is a record with one field per key the code  *)
(* reads, a key the dict does not have holding Absent.  The Cyrillic keys  *)
(* of the returned dictionaries are transliterated:                        *)
(*   Valyuta, PokupkaCard, ProdazhaCard, PokupkaNBU, ProdazhaNBU.          *)
(***************************************************************************)
EXTENDS Integers, Sequences, FiniteSets, TLC

\* Longest response list enumerated for each source.
MaxPbLen == 2
MaxNbuLen == 2

----------------------------------------------------------------------------
(* JSON / Python values *)

Str(s) == [t |-> "str", v |-> s]
Num(s) == [t |-> "num", v |-> s]
Null == [t |-> "null", v |-> ""]
\* A list or a dict appearing as the value of a key.
ListVal == [t |-> "list", v |-> "[]"]
DictVal == [t |-> "dict", v |-> "{}"]
\* Marks a key the dict does not contain.
Absent == [t |-> "absent", v |-> ""]

\* The placeholder 'N/A'.
NA == Str("N/A")

\* Keys of processed_rates in insertion order.
TrackedOrder == <<"USD", "EUR">>
Tracked == {TrackedOrder[i] : i \in 1..Len(TrackedOrder)}

\* processed_rates as constructed.
InitialRates ==
  [c \in Tracked |-> [buy_card |-> NA, sale_card |-> NA, nbu_rate |-> NA]]

\* dict.get(key, default)
Get(d, key, default) == IF d[key] = Absent THEN default ELSE d[key]

\* hash(x) succeeds: lists and dicts are unhashable.
Hashable(x) == x.t \notin {"list", "dict"}

\* x in processed_rates, for a hashable x.
InRates(x) == x.t = "str" /\ x.v \in Tracked

\* bool(x) of a decoded body.
Truthy(body) ==
  CASE body.t = "null" -> FALSE
    [] body.t = "bool" -> body.v = "true"
    [] body.t = "num" -> body.v # "0"
    [] OTHER -> body.items # <<>>

\* iter(x) succeeds: list, str (its characters) and dict (its keys).
Iterable(body) == body.t \in {"list", "str", "dict"}

----------------------------------------------------------------------------
(* Responses enumerated for the two sources *)

PbDict(ccy, buy, sale) == [t |-> "dict", ccy |-> ccy, buy |-> buy, sale |-> sale]
NbuDict(cc, rate) == [t |-> "dict", cc |-> cc, rate |-> rate]

PbElems ==
  { PbDict(Str("USD"), Str("27.10"), Str("27.50")),
    PbDict(Str("USD"), Str("27.20"), Absent),
    PbDict(Str("EUR"), Str("29.00"), Str("29.60")),
    PbDict(Str("GBP"), Str("33.00"), Str("33.90")),
    PbDict(Absent, Str("1.00"), Str("2.00")),
    PbDict(Num("840"), Str("1.00"), Str("2.00")),
    PbDict(ListVal, Str("1.00"), Str("2.00")),
    Str("USD") }

NbuElems ==
  { NbuDict(Str("USD"), Num("27.3")),
    NbuDict(Str("USD"), Absent),
    NbuDict(Str("EUR"), Num("29.1")),
    NbuDict(Str("GBP"), Num("33.5")),
    NbuDict(DictVal, Num("1.5")),
    Num("5") }

SeqsUpTo(S, n) == UNION {[1..k -> S] : k \in 0..n}

ListBody(items) == [t |-> "list", v |-> "", items |-> items]
EmptyList == ListBody(<<>>)

\* Decoded bodies that are not lists: null, true, 5, "USD", {"USD": 5}.
OtherBodies ==
  { [t |-> "null", v |-> "", items |-> <<>>],
    [t |-> "bool", v |-> "true", items |-> <<>>],
    [t |-> "num", v |-> "5", items |-> <<>>],
    [t |-> "str", v |-> "USD", items |-> <<Str("U"), Str("S"), Str("D")>>],
    [t |-> "dict", v |-> "", items |-> <<Str("USD")>>] }

Response(kind, status, body) == [kind |-> kind, status |-> status, body |-> body]
NoResponse == Response("none", 0, EmptyList)

\* requests.get raised, or returned a response whose body does not decode.
Failures ==
  { Response("Timeout", 0, EmptyList),
    Response("ConnectionError", 0, EmptyList),
    Response("RequestException", 0, EmptyList),
    Response("status", 404, EmptyList),
    Response("status", 500, EmptyList),
    Response("badjson", 200, EmptyList) }

PbResponses ==
  Failures \cup {Response("ok", 200, b) :
                   b \in {ListBody(s) : s \in SeqsUpTo(PbElems, MaxPbLen)} \cup OtherBodies}

NbuResponses ==
  Failures \cup {Response("ok", 200, b) :
                   b \in {ListBody(s) : s \in SeqsUpTo(NbuElems, MaxNbuLen)} \cup OtherBodies}

----------------------------------------------------------------------------
(* get_privatbank_exchange_rates *)

VARIABLES
  pc,                   \* position in the run
  privat_response,      \* what requests.get(privat_url) did
  pb_data_list,
  nbu_response,         \* what requests.get(nbu_url) did
  nbu_data_list,
  processed_rates,
  combined_rates_list,  \* the returned list, `rates` in __main__
  console,              \* the diagnostics printed so far, in order
  printed,              \* what show_exchange_rates printed: table or message
  table_rows,           \* the rows added to the table
  exc,                  \* the exception that ended the run, if any
  steps                 \* the steps executed so far, in order

vars == <<pc, privat_response, pb_data_list, nbu_response, nbu_data_list,
          processed_rates, combined_rates_list, console, printed, table_rows,
          exc, steps>>

Diag(api, msg) == [api |-> api, msg |-> msg]

\* Mutant: a non-200 status is swallowed without a diagnostic.
TryGet_SilentStatus(api, resp) ==
  CASE resp.kind = "ok" -> [data |-> resp.body, diag |-> <<>>]
    [] resp.kind = "status" -> [data |-> EmptyList, diag |-> <<>>]
    [] OTHER -> [data |-> EmptyList, diag |-> <<Diag(api, resp.kind)>>]

\* The try block around requests.get: the data list it leaves and what it prints.
TryGet(api, resp) ==
  CASE resp.kind = "ok" ->
         [data |-> resp.body, diag |-> <<>>]
    [] resp.kind = "badjson" ->
         [data |-> EmptyList, diag |-> <<Diag(api, "Could not decode JSON response")>>]
    [] resp.kind = "status" ->
         [data |-> EmptyList, diag |-> <<Diag(api, "returned status code")>>]
    [] resp.kind = "Timeout" ->
         [data |-> EmptyList, diag |-> <<Diag(api, "timed out")>>]
    [] resp.kind = "ConnectionError" ->
         [data |-> EmptyList, diag |-> <<Diag(api, "Could not connect")>>]
    [] resp.kind = "RequestException" ->
         [data |-> EmptyList, diag |-> <<Diag(api, "Error fetching rates")>>]

Ok(rates) == [rates |-> rates, exc |-> "none"]
Raise(rates, e) == [rates |-> rates, exc |-> e]

\* Mutant: a missing buy/sale key keeps the value already stored.
PbStep_KeepOld(rates, e) ==
  IF e.t = "dict"
  THEN LET ccy == Get(e, "ccy", Null) IN
       IF ~Hashable(ccy) THEN Raise(rates, "TypeError")
       ELSE IF InRates(ccy)
       THEN Ok([rates EXCEPT ![ccy.v].buy_card = Get(e, "buy", @),
                             ![ccy.v].sale_card = Get(e, "sale", @)])
       ELSE Ok(rates)
  ELSE Ok(rates)

\* Mutant: buy and sale are stored in each other's field.
PbStep_Swapped(rates, e) ==
  IF e.t = "dict"
  THEN LET ccy == Get(e, "ccy", Null) IN
       IF ~Hashable(ccy) THEN Raise(rates, "TypeError")
       ELSE IF InRates(ccy)
       THEN Ok([rates EXCEPT ![ccy.v].buy_card = Get(e, "sale", NA),
                             ![ccy.v].sale_card = Get(e, "buy", NA)])
       ELSE Ok(rates)
  ELSE Ok(rates)

\* Mutant: every code other than EUR is taken for USD.
PbStep_DefaultUSD(rates, e) ==
  IF e.t = "dict"
  THEN LET ccy == Get(e, "ccy", Null) IN
       IF ~Hashable(ccy) THEN Raise(rates, "TypeError")
       ELSE LET c == IF ccy = Str("EUR") THEN "EUR" ELSE "USD" IN
            Ok([rates EXCEPT ![c].buy_card = Get(e, "buy", NA),
                             ![c].sale_card = Get(e, "sale", NA)])
  ELSE Ok(rates)

\* One iteration of the loop over pb_data_list.
PbStep(rates, e) ==
  IF e.t = "dict"
  THEN LET ccy == Get(e, "ccy", Null) IN
       IF ~Hashable(ccy) THEN Raise(rates, "TypeError")
       ELSE IF InRates(ccy)
       THEN Ok([rates EXCEPT ![ccy.v].buy_card = Get(e, "buy", NA),
                             ![ccy.v].sale_card = Get(e, "sale", NA)])
       ELSE Ok(rates)
  ELSE Ok(rates)

\* Mutant: the official rate is stored in the card buy field.
NbuStep_WrongField(rates, e) ==
  IF e.t = "dict"
  THEN LET cc == Get(e, "cc", Null) IN
       IF ~Hashable(cc) THEN Raise(rates, "TypeError")
       ELSE IF InRates(cc)
       THEN Ok([rates EXCEPT ![cc.v].buy_card = Get(e, "rate", NA)])
       ELSE Ok(rates)
  ELSE Ok(rates)

\* One iteration of the loop over nbu_data_list.
NbuStep(rates, e) ==
  IF e.t = "dict"
  THEN LET cc == Get(e, "cc", Null) IN
       IF ~Hashable(cc) THEN Raise(rates, "TypeError")
       ELSE IF InRates(cc)
       THEN Ok([rates EXCEPT ![cc.v].nbu_rate = Get(e, "rate", NA)])
       ELSE Ok(rates)
  ELSE Ok(rates)

RECURSIVE PbLoop(_, _, _)
PbLoop(rates, items, i) ==
  IF i > Len(items) THEN Ok(rates)
  ELSE LET r == PbStep(rates, items[i]) IN
       IF r.exc # "none" THEN r ELSE PbLoop(r.rates, items, i + 1)

RECURSIVE NbuLoop(_, _, _)
NbuLoop(rates, items, i) ==
  IF i > Len(items) THEN Ok(rates)
  ELSE LET r == NbuStep(rates, items[i]) IN
       IF r.exc # "none" THEN r ELSE NbuLoop(r.rates, items, i + 1)

\* "if pb_data_list: for currency_data in pb_data_list: ..."
ProcessPb(rates, data) ==
  IF ~Truthy(data) THEN Ok(rates)
  ELSE IF ~Iterable(data) THEN Raise(rates, "TypeError")
  ELSE PbLoop(rates, data.items, 1)

\* "if nbu_data_list: for currency_data in nbu_data_list: ..."
ProcessNbu(rates, data) ==
  IF ~Truthy(data) THEN Ok(rates)
  ELSE IF ~Iterable(data) THEN Raise(rates, "TypeError")
  ELSE NbuLoop(rates, data.items, 1)

RateEntry(code, r) ==
  [Valyuta |-> code,
   PokupkaCard |-> r.buy_card,
   ProdazhaCard |-> r.sale_card,
   PokupkaNBU |-> r.nbu_rate,
   ProdazhaNBU |-> r.nbu_rate]

\* Mutant: a currency with no data at all gets no record.
BuildCombined_SkipEmpty(rates) ==
  LET keep == SelectSeq(TrackedOrder, LAMBDA c : rates[c] # InitialRates[c]) IN
  [i \in 1..Len(keep) |-> RateEntry(keep[i], rates[keep[i]])]

\* Mutant: the records are built in reverse order.
BuildCombined_Reversed(rates) ==
  [i \in 1..Len(TrackedOrder) |->
     RateEntry(TrackedOrder[Len(TrackedOrder) + 1 - i],
               rates[TrackedOrder[Len(TrackedOrder) + 1 - i]])]

\* The loop over processed_rates.items() that builds combined_rates_list.
BuildCombined(rates) ==
  [i \in 1..Len(TrackedOrder) |-> RateEntry(TrackedOrder[i], rates[TrackedOrder[i]])]

\* The row show_exchange_rates adds for one rate dictionary.
Row(rate) ==
  <<Str(rate.Valyuta), rate.PokupkaCard, rate.ProdazhaCard,
    rate.PokupkaNBU, rate.ProdazhaNBU>>

Init ==
  /\ pc = "fetch_pb"
  /\ privat_response = NoResponse
  /\ pb_data_list = EmptyList
  /\ nbu_response = NoResponse
  /\ nbu_data_list = EmptyList
  /\ processed_rates = InitialRates
  /\ combined_rates_list = <<>>
  /\ console = <<>>
  /\ printed = "nothing"
  /\ table_rows = <<>>
  /\ exc = "none"
  /\ steps = <<>>

\* Mutant: a failed request to PrivatBank is tried once more.
FetchPrivat_Retry ==
  /\ pc = "fetch_pb"
  /\ \E resp \in PbResponses :
       LET got == TryGet("PrivatBank", resp) IN
       /\ privat_response' = resp
       /\ pb_data_list' = got.data
       /\ console' = console \o got.diag
       /\ pc' = IF resp.kind # "ok" /\ Len(steps) < 1 THEN "fetch_pb" ELSE "process_pb"
  /\ steps' = Append(steps, "fetch_pb")
  /\ UNCHANGED <<nbu_response, nbu_data_list, processed_rates, combined_rates_list,
                 printed, table_rows, exc>>

FetchPrivat ==
  /\ pc = "fetch_pb"
  /\ \E resp \in PbResponses :
       LET got == TryGet("PrivatBank", resp) IN
       /\ privat_response' = resp
       /\ pb_data_list' = got.data
       /\ console' = console \o got.diag
  /\ pc' = "process_pb"
  /\ steps' = Append(steps, "fetch_pb")
  /\ UNCHANGED <<nbu_response, nbu_data_list, processed_rates, combined_rates_list,
                 printed, table_rows, exc>>

ProcessPrivat ==
  /\ pc = "process_pb"
  /\ LET r == ProcessPb(processed_rates, pb_data_list) IN
       /\ processed_rates' = r.rates
       /\ exc' = r.exc
       /\ pc' = IF r.exc = "none" THEN "fetch_nbu" ELSE "crashed"
  /\ steps' = Append(steps, "process_pb")
  /\ UNCHANGED <<privat_response, pb_data_list, nbu_response, nbu_data_list,
                 combined_rates_list, console, printed, table_rows>>

FetchNbu ==
  /\ pc = "fetch_nbu"
  /\ \E resp \in NbuResponses :
       LET got == TryGet("NBU", resp) IN
       /\ nbu_response' = resp
       /\ nbu_data_list' = got.data
       /\ console' = console \o got.diag
  /\ pc' = "process_nbu"
  /\ steps' = Append(steps, "fetch_nbu")
  /\ UNCHANGED <<privat_response, pb_data_list, processed_rates, combined_rates_list,
                 printed, table_rows, exc>>

ProcessNbu_ ==
  /\ pc = "process_nbu"
  /\ LET r == ProcessNbu(processed_rates, nbu_data_list) IN
       /\ processed_rates' = r.rates
       /\ exc' = r.exc
       /\ pc' = IF r.exc = "none" THEN "build" ELSE "crashed"
  /\ steps' = Append(steps, "process_nbu")
  /\ UNCHANGED <<privat_response, pb_data_list, nbu_response, nbu_data_list,
                 combined_rates_list, console, printed, table_rows>>

\* Build combined_rates_list and return it to __main__.
Return ==
  /\ pc = "build"
  /\ combined_rates_list' = BuildCombined(processed_rates)
  /\ pc' = "show"
  /\ steps' = Append(steps, "build")
  /\ UNCHANGED <<privat_response, pb_data_list, nbu_response, nbu_data_list,
                 processed_rates, console, printed, table_rows, exc>>

show_exchange_rates ==
  /\ pc = "show"
  /\ IF combined_rates_list # <<>>
     THEN /\ printed' = "table"
          /\ table_rows' = [i \in 1..Len(combined_rates_list) |->
                              Row(combined_rates_list[i])]
     ELSE /\ printed' = "message"
          /\ table_rows' = <<>>
  /\ pc' = "done"
  /\ steps' = Append(steps, "show")
  /\ UNCHANGED <<privat_response, pb_data_list, nbu_response, nbu_data_list,
                 processed_rates, combined_rates_list, console, exc>>

Next ==
  \/ FetchPrivat
  \/ ProcessPrivat
  \/ FetchNbu
  \/ ProcessNbu_
  \/ Return
  \/ show_exchange_rates

Spec == Init /\ [][Next]_vars

----------------------------------------------------------------------------
(* Vocabulary of the properties *)

\* get_privatbank_exchange_rates has returned its list.
Returned == pc \in {"show", "done"}

PbFetched == Len(steps) >= 1
NbuFetched == Len(steps) >= 3
PbFailed == PbFetched /\ privat_response.kind # "ok"
NbuFailed == NbuFetched /\ nbu_response.kind # "ok"
PbGotList == PbFetched /\ privat_response.kind = "ok" /\ privat_response.body.t = "list"
NbuGotList == NbuFetched /\ nbu_response.kind = "ok" /\ nbu_response.body.t = "list"

\* The returned record of currency c.
RecordOf(c) ==
  combined_rates_list[CHOOSE k \in 1..Len(combined_rates_list) :
                        combined_rates_list[k].Valyuta = c]

\* Positions of the objects of a list whose code key holds the string c.
Positions(items, key, c) ==
  {i \in 1..Len(items) : items[i].t = "dict" /\ items[i][key] = Str(c)}

Last(S) == CHOOSE i \in S : \A j \in S : j <= i

\* What a list says about field `key` of currency c: the field of the last
\* object for c, 'N/A' when that object lacks the key or no object is for c.
Given(items, codeKey, c, key) ==
  LET at == Positions(items, codeKey, c) IN
  IF at = {} THEN NA
  ELSE IF items[Last(at)][key] = Absent THEN NA ELSE items[Last(at)][key]

DiagCount(api) == Cardinality({i \in 1..Len(console) : console[i].api = api})

\* An object whose code is a currency code other than the tracked ones.
Untracked(e, codeKey) ==
  e.t = "dict" /\ e[codeKey].t = "str" /\ e[codeKey].v \notin Tracked

\* An element the merge has no use for: not an object, an object with no
\* code, or an object whose code is anything but a tracked code string.
Malformed(e, codeKey) ==
  \/ e.t # "dict"
  \/ e[codeKey] = Absent
  \/ ~(e[codeKey].t = "str" /\ e[codeKey].v \in Tracked)

Without(data, P(_)) ==
  IF data.t = "list"
  THEN ListBody(SelectSeq(data.items, LAMBDA e : ~P(e)))
  ELSE data

\* The outcome of a run on the two data lists: the exception or the list.
Outcome(pbdata, nbudata) ==
  LET a == ProcessPb(InitialRates, pbdata) IN
  IF a.exc # "none" THEN [exc |-> a.exc, list |-> <<>>]
  ELSE LET b == ProcessNbu(a.rates, nbudata) IN
       IF b.exc # "none" THEN [exc |-> b.exc, list |-> <<>>]
       ELSE [exc |-> "none", list |-> BuildCombined(b.rates)]

ExpectedSteps ==
  <<"fetch_pb", "process_pb", "fetch_nbu", "process_nbu", "build", "show">>

----------------------------------------------------------------------------
(* Properties *)

\* C1: whatever the two fetches did, the returned list has exactly two
\* records, the first for USD and the second for EUR.
C1_TwoRecordsUsdThenEur ==
  Returned =>
    /\ Len(combined_rates_list) = 2
    /\ combined_rates_list[1].Valyuta = "USD"
    /\ combined_rates_list[2].Valyuta = "EUR"

\* C1 witness: returned after a commercial list holding the EUR object twice
\* and no USD object, and a failed official fetch.
C1_Witness ==
  /\ Returned
  /\ PbGotList /\ Len(pb_data_list.items) = 2
  /\ pb_data_list.items[1] = pb_data_list.items[2]
  /\ pb_data_list.items[1].t = "dict"
  /\ pb_data_list.items[1].ccy = Str("EUR")
  /\ NbuFailed

\* C2 (as claimed): no exception ever escapes the run.
C2_NoExceptionEscapes == pc # "crashed" /\ exc = "none"

\* C3: a failed GET leaves exactly one diagnostic for its source, an empty
\* data list and no exception; a 200 with a decodable body leaves no
\* diagnostic for its source.
C3_OneDiagnosticPerFailure ==
  /\ PbFetched =>
       IF privat_response.kind = "ok"
       THEN DiagCount("PrivatBank") = 0 /\ pb_data_list = privat_response.body
       ELSE DiagCount("PrivatBank") = 1 /\ pb_data_list = EmptyList
  /\ NbuFetched =>
       IF nbu_response.kind = "ok"
       THEN DiagCount("NBU") = 0 /\ nbu_data_list = nbu_response.body
       ELSE DiagCount("NBU") = 1 /\ nbu_data_list = EmptyList
  /\ ~PbFetched => DiagCount("PrivatBank") = 0
  /\ ~NbuFetched => DiagCount("NBU") = 0
  /\ Len(steps) \in {1, 3} => pc \in {"process_pb", "process_nbu"} /\ exc = "none"

\* C3 witness: PrivatBank answered 404 and the NBU body did not decode.
C3_Witness ==
  /\ pc = "process_nbu"
  /\ privat_response.kind = "status"
  /\ nbu_response.kind = "badjson"
  /\ Len(console) = 2

\* C4: with one object for a tracked code in each list, the record of that
\* code carries the object's buy, sale and rate unchanged, the rate in both
\* official columns.
C4_ValuesPassThrough ==
  (Returned /\ PbGotList /\ NbuGotList) =>
    \A c \in Tracked :
      \A i \in 1..Len(pb_data_list.items), j \in 1..Len(nbu_data_list.items) :
        ( /\ Positions(pb_data_list.items, "ccy", c) = {i}
          /\ Positions(nbu_data_list.items, "cc", c) = {j}
          /\ pb_data_list.items[i].buy # Absent
          /\ pb_data_list.items[i].sale # Absent
          /\ nbu_data_list.items[j].rate # Absent )
        => RecordOf(c) = [Valyuta |-> c,
                          PokupkaCard |-> pb_data_list.items[i].buy,
                          ProdazhaCard |-> pb_data_list.items[i].sale,
                          PokupkaNBU |-> nbu_data_list.items[j].rate,
                          ProdazhaNBU |-> nbu_data_list.items[j].rate]

\* C4 witness: USD 27.10/27.50 from PrivatBank and 27.3 from the NBU.
C4_Witness ==
  /\ Returned /\ PbGotList /\ NbuGotList
  /\ pb_data_list.items = <<PbDict(Str("GBP"), Str("33.00"), Str("33.90")),
                            PbDict(Str("USD"), Str("27.10"), Str("27.50"))>>
  /\ nbu_data_list.items = <<NbuDict(Str("USD"), Num("27.3")),
                             NbuDict(Str("EUR"), Num("29.1"))>>
  /\ RecordOf("USD").PokupkaCard = Str("27.10")
  /\ RecordOf("USD").ProdazhaNBU = Num("27.3")

\* C5: a failed source leaves only its own fields at 'N/A'; the other
\* source's fields are what its list gives.
C5_FailureIsSourceLocal ==
  /\ (Returned /\ PbFailed /\ nbu_response.kind = "ok") =>
       \A c \in Tracked :
         /\ RecordOf(c).PokupkaCard = NA
         /\ RecordOf(c).ProdazhaCard = NA
         /\ NbuGotList =>
              /\ RecordOf(c).PokupkaNBU = Given(nbu_data_list.items, "cc", c, "rate")
              /\ RecordOf(c).ProdazhaNBU = Given(nbu_data_list.items, "cc", c, "rate")
  /\ (Returned /\ NbuFailed /\ privat_response.kind = "ok") =>
       \A c \in Tracked :
         /\ RecordOf(c).PokupkaNBU = NA
         /\ RecordOf(c).ProdazhaNBU = NA
         /\ PbGotList =>
              /\ RecordOf(c).PokupkaCard = Given(pb_data_list.items, "ccy", c, "buy")
              /\ RecordOf(c).ProdazhaCard = Given(pb_data_list.items, "ccy", c, "sale")

\* C5 witness: PrivatBank timed out, the NBU gave USD 27.3.
C5_Witness ==
  /\ Returned
  /\ privat_response.kind = "Timeout"
  /\ NbuGotList
  /\ nbu_data_list.items = <<NbuDict(Str("USD"), Num("27.3"))>>
  /\ RecordOf("USD").PokupkaNBU = Num("27.3")
  /\ RecordOf("USD").PokupkaCard = NA

\* C6: when both fetches fail the returned list still has the USD and EUR
\* records, all fields 'N/A', and the table is printed, not the message.
C6_BothFailStillTable ==
  (PbFailed /\ NbuFailed) =>
    /\ Returned =>
         combined_rates_list =
           <<[Valyuta |-> "USD", PokupkaCard |-> NA, ProdazhaCard |-> NA,
              PokupkaNBU |-> NA, ProdazhaNBU |-> NA],
             [Valyuta |-> "EUR", PokupkaCard |-> NA, ProdazhaCard |-> NA,
              PokupkaNBU |-> NA, ProdazhaNBU |-> NA]>>
    /\ printed # "message"
    /\ pc = "done" => printed = "table" /\ Len(table_rows) = 2

\* C6 witness: a finished run in which both requests timed out.
C6_Witness ==
  /\ pc = "done"
  /\ privat_response.kind = "Timeout"
  /\ nbu_response.kind = "ConnectionError"
  /\ printed = "table"

\* C7: the outcome of a run is the outcome of the run on the same two lists
\* with every object of an untracked currency code removed, and no record is
\* for an untracked code.  Two runs whose lists differ only in such objects
\* have the same lists once these are removed, hence the same records.
C7_UntrackedIgnored ==
  pc \in {"show", "done", "crashed"} =>
    /\ [exc |-> exc, list |-> combined_rates_list] =
         Outcome(Without(pb_data_list, LAMBDA e : Untracked(e, "ccy")),
                 Without(nbu_data_list, LAMBDA e : Untracked(e, "cc")))
    /\ \A k \in 1..Len(combined_rates_list) :
         combined_rates_list[k].Valyuta \in Tracked

\* C7 witness: both lists hold a GBP object next to a USD object.
C7_Witness ==
  /\ Returned /\ PbGotList /\ NbuGotList
  /\ pb_data_list.items = <<PbDict(Str("USD"), Str("27.10"), Str("27.50")),
                            PbDict(Str("GBP"), Str("33.00"), Str("33.90"))>>
  /\ nbu_data_list.items = <<NbuDict(Str("GBP"), Num("33.5")),
                             NbuDict(Str("USD"), Num("27.3"))>>

\* C8 (as claimed): the scan of a list raises nothing and leaves the records
\* as the scan of the list without its malformed elements leaves them.
C8_MalformedSkipped ==
  /\ (Len(steps) = 2 /\ pb_data_list.t = "list") =>
       /\ exc = "none"
       /\ processed_rates =
            ProcessPb(InitialRates,
                      Without(pb_data_list, LAMBDA e : Malformed(e, "ccy"))).rates
  /\ (Len(steps) = 4 /\ pb_data_list.t = "list" /\ nbu_data_list.t = "list") =>
       /\ exc = "none"
       /\ processed_rates =
            ProcessNbu(ProcessPb(InitialRates,
                                 Without(pb_data_list,
                                         LAMBDA e : Malformed(e, "ccy"))).rates,
                       Without(nbu_data_list, LAMBDA e : Malformed(e, "cc"))).rates

\* C9 (as claimed): the steps run in the order fetch commercial, fetch
\* official, merge, render: nothing is merged into the records before the
\* official source has been fetched, each source is requested at most once,
\* and nothing is printed by the presenter before both fetches.
C9_MergeAfterBothFetches ==
  /\ processed_rates # InitialRates => \E j \in 1..Len(steps) : steps[j] = "fetch_nbu"
  /\ Cardinality({i \in 1..Len(steps) : steps[i] = "fetch_pb"}) <= 1
  /\ Cardinality({i \in 1..Len(steps) : steps[i] = "fetch_nbu"}) <= 1
  /\ printed # "nothing" => PbFetched /\ NbuFetched

\* C9 (amended): the steps run in the order fetch commercial, scan the
\* commercial list, fetch official, scan the official list, build the list,
\* render; each source is requested at most once; rendering comes after both
\* fetches.
C9_StepOrder ==
  /\ Len(steps) <= Len(ExpectedSteps)
  /\ \A i \in 1..Len(steps) : steps[i] = ExpectedSteps[i]
  /\ printed # "nothing" => steps = ExpectedSteps

\* C9 witness: a finished run, all six steps taken, the commercial list
\* merged into the records.
C9_Witness ==
  /\ pc = "done"
  /\ steps = ExpectedSteps
  /\ printed = "table"
  /\ PbGotList /\ processed_rates["USD"].buy_card # NA

\* C10: with several objects for one tracked code in a list, the record has
\* the fields of the last one, 'N/A' where the last one lacks the key.
C10_LastObjectWins ==
  Returned =>
    \A c \in Tracked :
      /\ (PbGotList /\ Positions(pb_data_list.items, "ccy", c) # {}) =>
           LET e == pb_data_list.items[Last(Positions(pb_data_list.items, "ccy", c))] IN
           /\ RecordOf(c).PokupkaCard = Get(e, "buy", NA)
           /\ RecordOf(c).ProdazhaCard = Get(e, "sale", NA)
      /\ (NbuGotList /\ Positions(nbu_data_list.items, "cc", c) # {}) =>
           LET e == nbu_data_list.items[Last(Positions(nbu_data_list.items, "cc", c))] IN
           /\ RecordOf(c).PokupkaNBU = Get(e, "rate", NA)
           /\ RecordOf(c).ProdazhaNBU = Get(e, "rate", NA)

\* C10 witness: USD 27.10/27.50 followed by USD 27.20 with no sale, and an
\* NBU USD rate followed by a USD object with no rate.
C10_Witness ==
  /\ Returned /\ PbGotList /\ NbuGotList
  /\ pb_data_list.items = <<PbDict(Str("USD"), Str("27.10"), Str("27.50")),
                            PbDict(Str("USD"), Str("27.20"), Absent)>>
  /\ nbu_data_list.items = <<NbuDict(Str("USD"), Num("27.3")),
                             NbuDict(Str("USD"), Absent)>>
  /\ RecordOf("USD").PokupkaCard = Str("27.20")
  /\ RecordOf("USD").ProdazhaCard = NA
  /\ RecordOf("USD").PokupkaNBU = NA

====
